---- MODULE Spec2Model ----
(***************************************************************************)
(* posy: PEP 440 version specifiers (src/vocab/specifier.rs).              *)
(*                                                                         *)
(* CompareOp::to_ranges compiles an operator and a right-hand side into a  *)
(* union of half-open ranges over the Version order;                       *)
(* Specifier::satisfied_by tests membership in any of them;                *)
(* Specifiers::satisfied_by conjoins a collection, short-circuiting.       *)
(*                                                                         *)
(* The Version type (its order, next(), ZERO and INFINITY) belongs to      *)
(* src/vocab/version.rs and the pep440 crate; it is modelled from sections *)
(* 3 and 4.1 of the specification.                                         *)
(***************************************************************************)
EXTENDS Integers, Sequences, FiniteSets, TLC

\* ---------------------------------------------------------------- bounds
\* u32::MAX, scaled down so that every value of the type, the largest
\* included, is enumerated: a u32 is one of 0..U32_MAX.
U32_MAX == 2
\* largest epoch of an input version
MaxEpoch == 1
\* longest release sequence of an input version
MaxRelLen == 2
\* longest local segment of an input version
MaxLocalLen == 1
\* longest Specifiers collection
MaxSpecs == 2

\* ------------------------------------------------------------ Option<T>
None == <<>>
Some(x) == <<x>>
IsSome(o) == Len(o) > 0
IsNone(o) == Len(o) = 0
Unwrap(o) == o[1]

\* ------------------------------------------------------- Version (model)
\* pep440::Version as used by specifier.rs: epoch, release, pre, post, dev,
\* local.  "bound" distinguishes the two sentinels from ordinary literals and
\* "succ" is the synthetic marker next() attaches.
Lit(e, r, p, po, d, l) ==
    [bound |-> 0, epoch |-> e, release |-> r, pre |-> p, post |-> po,
     dev |-> d, local |-> l, succ |-> FALSE]

PreRelease(tag, n) == [tag |-> tag, n |-> n]

\* Version::ZERO, the global minimum of the order
ZERO == [Lit(0, <<0>>, None, None, None, <<>>) EXCEPT !.bound = -1]
\* Version::INFINITY, the global maximum of the order
INFINITY == [Lit(0, <<0>>, None, None, None, <<>>) EXCEPT !.bound = 1]

\* next(v): the least value strictly above v, with nothing in between
next(v) == [v EXCEPT !.succ = TRUE]

CmpInt(a, b) == IF a < b THEN -1 ELSE IF a > b THEN 1 ELSE 0

Max(a, b) == IF a > b THEN a ELSE b

\* release sequences compare element-wise with implicit trailing zeros
RelAt(r, k) == IF k <= Len(r) THEN r[k] ELSE 0

RECURSIVE CmpRelease(_, _, _)
CmpRelease(a, b, k) ==
    IF k > Max(Len(a), Len(b)) THEN 0
    ELSE IF RelAt(a, k) # RelAt(b, k) THEN CmpInt(RelAt(a, k), RelAt(b, k))
    ELSE CmpRelease(a, b, k + 1)

\* Alpha < Beta < ReleaseCandidate
TagRank(tag) == CASE tag = "A" -> 0 [] tag = "B" -> 1 [] tag = "RC" -> 2

\* maturity rank: a dev-release of the bare release sorts below every
\* pre-release, a version without pre-release above every pre-release
PreRank(v) ==
    IF IsNone(v.pre) /\ IsNone(v.post) /\ IsSome(v.dev) THEN -1
    ELSE IF IsNone(v.pre) THEN 3
    ELSE TagRank(Unwrap(v.pre).tag)

PreNum(v) == IF IsSome(v.pre) THEN Unwrap(v.pre).n ELSE 0

\* no post-release sorts below every post-release
PostKey(v) == IF IsSome(v.post) THEN Unwrap(v.post) ELSE -1

\* a dev-release sorts below the version it is a dev-release of
DevKey(v) == IF IsSome(v.dev) THEN Unwrap(v.dev) ELSE U32_MAX + 1

\* local segments: absent below present, then element-wise, a proper prefix
\* below its extensions
RECURSIVE CmpLocal(_, _, _)
CmpLocal(a, b, k) ==
    IF k > Len(a) /\ k > Len(b) THEN 0
    ELSE IF k > Len(a) THEN -1
    ELSE IF k > Len(b) THEN 1
    ELSE IF a[k] # b[k] THEN CmpInt(a[k], b[k])
    ELSE CmpLocal(a, b, k + 1)

\* lexicographic step: the first comparison decides unless it is a tie
Then(c, d) == IF c # 0 THEN c ELSE d

\* Ord for Version: the total order of section 3 of the specification
Cmp(a, b) ==
    IF a.bound # b.bound THEN CmpInt(a.bound, b.bound)
    ELSE IF a.bound # 0 THEN 0
    ELSE IF a.epoch # b.epoch THEN CmpInt(a.epoch, b.epoch)
    ELSE LET rel == CmpRelease(a.release, b.release, 1)
         IN  IF rel # 0 THEN rel
             ELSE IF PreRank(a) # PreRank(b) THEN CmpInt(PreRank(a), PreRank(b))
             ELSE IF PreNum(a) # PreNum(b) THEN CmpInt(PreNum(a), PreNum(b))
             ELSE IF PostKey(a) # PostKey(b) THEN CmpInt(PostKey(a), PostKey(b))
             ELSE IF DevKey(a) # DevKey(b) THEN CmpInt(DevKey(a), DevKey(b))
             ELSE Then(CmpLocal(a.local, b.local, 1),
                       CmpInt(IF a.succ THEN 1 ELSE 0, IF b.succ THEN 1 ELSE 0))

Lt(a, b) == Cmp(a, b) < 0
Le(a, b) == Cmp(a, b) <= 0

\* ------------------------------------------------------- Range<Version>
Range(lo, hi) == [start |-> lo, end |-> hi]

\* Range::contains: start <= item && item < end
Contains(r, w) == Le(r.start, w) /\ Lt(w, r.end)

\* ------------------------------------------------------ right-hand sides
\* The text of a right-hand side, as a sequence of tokens: the text of one
\* version literal, the two characters ".*", or text that is no version.
VersionTok(v) == [kind |-> "version", v |-> v]
StarTok == [kind |-> ".*", v |-> ZERO]
JunkTok == [kind |-> "junk", v |-> ZERO]

\* str::strip_suffix(".*")
strip_suffix(s) ==
    IF Len(s) > 0 /\ s[Len(s)].kind = ".*"
    THEN Some(SubSeq(s, 1, Len(s) - 1))
    ELSE None

\* Version::try_from(&str): exactly one version literal, nothing else
Version_try_from(s) ==
    IF Len(s) = 1 /\ s[1].kind = "version"
    THEN [ok |-> TRUE, version |-> s[1].v]
    ELSE [ok |-> FALSE, version |-> ZERO]

parse_version_wildcard(input) ==
    LET stripped == strip_suffix(input)
        wildcard == IsSome(stripped)
        vstr == IF wildcard THEN Unwrap(stripped) ELSE input
        parsed == Version_try_from(vstr)
    IN  [ok |-> parsed.ok, version |-> parsed.version, wildcard |-> wildcard]

\* -------------------------------------------------------------- results
\* Result<Vec<Range<Version>>>, or the panic of an overflowing `+ 1`
OkRanges(rs) == [kind |-> "ok", ranges |-> rs, why |-> ""]
ErrRanges(why) == [kind |-> "err", ranges |-> <<>>, why |-> why]
PanicRanges == [kind |-> "panic", ranges |-> <<>>, why |-> "overflow"]

\* Result<bool>, or a panic; NoResult before the call has returned
OkBool(b) == [kind |-> "ok", val |-> b]
ErrBool == [kind |-> "err", val |-> FALSE]
PanicBool == [kind |-> "panic", val |-> FALSE]
NoResult == [kind |-> "none", val |-> FALSE]

\* ------------------------------------------------------ u32 arithmetic
\* `n + 1` on a u32: with overflow checks (a debug build) it panics at
\* u32::MAX, without them (a release build) it wraps to 0.
Overflows(n) == n = U32_MAX
WrappingInc(n) == (n + 1) % (U32_MAX + 1)

Last(r) == r[Len(r)]
SetLast(r, x) == [r EXCEPT ![Len(r)] = x]
Pop(r) == SubSeq(r, 1, Len(r) - 1)

\* ------------------------------------------------- CompareOp::to_ranges
CompareOp ==
    {"LessThanEqual", "StrictlyLessThan", "NotEqual", "Equal",
     "GreaterThanEqual", "StrictlyGreaterThan", "Compatible"}

\* wildcard branch: low is the literal with dev forced to 0
wildcard_low(version) == [version EXCEPT !.dev = Some(0)]

\* wildcard branch: the number the `+ 1` is applied to
wildcard_last(version) ==
    IF IsSome(version.post) THEN Unwrap(version.post)
    ELSE IF IsSome(version.pre) THEN Unwrap(version.pre).n
    ELSE Last(version.release)

\* wildcard branch: high is the literal with its last numeric entry
\* incremented, then dev forced to 0
wildcard_high(version) ==
    LET bumped ==
          IF IsSome(version.post)
          THEN [version EXCEPT !.post = Some(WrappingInc(Unwrap(version.post)))]
          ELSE IF IsSome(version.pre)
          THEN [version EXCEPT !.pre =
                  Some(PreRelease(Unwrap(version.pre).tag,
                                  WrappingInc(Unwrap(version.pre).n)))]
          ELSE [version EXCEPT !.release =
                  SetLast(version.release, WrappingInc(Last(version.release)))]
    IN  [bumped EXCEPT !.dev = Some(0)]

wildcard_ranges(op, version, build) ==
    IF IsSome(version.dev) \/ version.local # <<>>
    THEN ErrRanges("version wildcards can't have dev or local suffixes")
    ELSE IF Overflows(wildcard_last(version)) /\ build = "debug"
    THEN PanicRanges
    ELSE LET low == wildcard_low(version)
             high == wildcard_high(version)
         IN  CASE op = "Equal" -> OkRanges(<< Range(low, high) >>)
               [] op = "NotEqual" ->
                    OkRanges(<< Range(ZERO, low), Range(high, INFINITY) >>)
               [] OTHER -> ErrRanges("Can't use wildcard with this operator")

\* StrictlyGreaterThan: the number the `+ 1` is applied to, if any
StrictlyGreaterThan_incremented(version) ==
    IF IsSome(version.dev) THEN version.dev
    ELSE IF IsSome(version.post) THEN version.post
    ELSE None

\* StrictlyGreaterThan: the lower end of the range
StrictlyGreaterThan_low(version) ==
    IF IsSome(version.dev)
    THEN [version EXCEPT !.dev = Some(WrappingInc(Unwrap(version.dev)))]
    ELSE IF IsSome(version.post)
    THEN [version EXCEPT !.post = Some(WrappingInc(Unwrap(version.post)))]
    ELSE [version EXCEPT !.post = Some(U32_MAX)]

\* StrictlyLessThan_new_max without the special case of a final release
StrictlyLessThan_new_max_unchanged(version) == version

\* StrictlyLessThan: the upper end of the range
StrictlyLessThan_new_max(version) ==
    IF IsNone(version.pre) /\ IsNone(version.dev)
    THEN [version EXCEPT !.dev = Some(0), !.post = None, !.local = <<>>]
    ELSE version

\* Compatible_new_max without `dev: Some(0)`
Compatible_new_max_no_dev(version) ==
    LET popped == Pop(version.release)
    IN  Lit(version.epoch, SetLast(popped, WrappingInc(Last(popped))),
            None, None, None, <<>>)

\* Compatible: the upper end of the range
Compatible_new_max(version) ==
    LET popped == Pop(version.release)
    IN  Lit(version.epoch, SetLast(popped, WrappingInc(Last(popped))),
            None, None, Some(0), <<>>)

plain_ranges(op, version, build) ==
    IF op # "Equal" /\ op # "NotEqual" /\ version.local # <<>>
    THEN ErrRanges("Operator cannot be used on a version with a +local suffix")
    ELSE CASE op = "LessThanEqual" ->
                OkRanges(<< Range(ZERO, next(version)) >>)
           [] op = "GreaterThanEqual" ->
                OkRanges(<< Range(version, INFINITY) >>)
           [] op = "Equal" ->
                OkRanges(<< Range(version, next(version)) >>)
           [] op = "NotEqual" ->
                OkRanges(<< Range(ZERO, version),
                            Range(next(version), INFINITY) >>)
           [] op = "StrictlyGreaterThan" ->
                LET inc == StrictlyGreaterThan_incremented(version)
                IN  IF IsSome(inc) /\ Overflows(Unwrap(inc)) /\ build = "debug"
                    THEN PanicRanges
                    ELSE OkRanges(<< Range(StrictlyGreaterThan_low(version),
                                           INFINITY) >>)
           [] op = "StrictlyLessThan" ->
                OkRanges(<< Range(ZERO, StrictlyLessThan_new_max(version)) >>)
           [] op = "Compatible" ->
                IF Len(version.release) < 2
                THEN ErrRanges("~= operator requires a version with two segments (X.Y)")
                ELSE IF Overflows(Last(Pop(version.release))) /\ build = "debug"
                THEN PanicRanges
                ELSE OkRanges(<< Range(version, Compatible_new_max(version)) >>)

to_ranges(op, rhs, build) ==
    LET p == parse_version_wildcard(rhs)
    IN  IF ~p.ok THEN ErrRanges("parse")
        ELSE IF p.wildcard THEN wildcard_ranges(op, p.version, build)
        ELSE plain_ranges(op, p.version, build)

\* ------------------------------------------------------------ Specifier
Specifier(op, value) == [op |-> op, value |-> value]

\* Specifier::satisfied_by on the result rs of to_ranges: `?` propagates the
\* error, any() asks every range
satisfied_by_ranges(rs, version) ==
    IF rs.kind = "err" THEN ErrBool
    ELSE IF rs.kind = "panic" THEN PanicBool
    ELSE OkBool(\E k \in 1..Len(rs.ranges) : Contains(rs.ranges[k], version))

Specifier_satisfied_by(specifier, version, build) ==
    satisfied_by_ranges(to_ranges(specifier.op, specifier.value, build), version)

\* loop_body with the early return of Ok(false) left out
loop_body_no_early_return(r) ==
    IF r.kind # "ok" THEN [return |-> TRUE, value |-> r]
    ELSE [return |-> FALSE, value |-> NoResult]

\* Specifiers::satisfied_by, one pass of the loop body over the result r of
\* specifier.satisfied_by: `?` returns the error, an unsatisfied specifier
\* returns Ok(false), a satisfied one goes on to the next specifier.
loop_body(r) ==
    IF r.kind # "ok" THEN [return |-> TRUE, value |-> r]
    ELSE IF ~r.val THEN [return |-> TRUE, value |-> OkBool(FALSE)]
    ELSE [return |-> FALSE, value |-> NoResult]

\* --------------------------------------------------------------- inputs
Nums == 0..U32_MAX
Epochs == 0..MaxEpoch
Releases == UNION {[1..n -> Nums] : n \in 1..MaxRelLen}
PreTags == {"A", "B", "RC"}
Pres == {None} \cup {Some(PreRelease(t, n)) : t \in PreTags, n \in Nums}
OptNums == {None} \cup {Some(n) : n \in Nums}
Locals == UNION {[1..n -> {1}] : n \in 0..MaxLocalLen}
Builds == {"debug", "release"}

Versions(E, R, P, Po, D, L) ==
    {Lit(e, r, p, po, d, l) :
        e \in E, r \in R, p \in P, po \in Po, d \in D, l \in L}

\* The versions a specifier on the literal v is asked about: every version of
\* v's epoch and release, whatever its suffixes; of every other release of
\* v's epoch the final release and its first dev-release; the same two of
\* v's release and of the least release in every epoch; and the two
\* sentinels.
Candidates(v) ==
    Versions({v.epoch}, {v.release}, Pres, OptNums, OptNums, Locals)
    \cup Versions({v.epoch}, Releases, {None}, {None}, {None, Some(0)}, {<<>>})
    \cup Versions(Epochs, {<<0>>, v.release}, {None}, {None},
                  {None, Some(0)}, {<<>>})
    \cup {ZERO, INFINITY}

\* ---------------------------------------------------------------- state
VARIABLES
    specifiers,  \* the Specifiers collection the call is made on
    version,     \* the version it is asked about
    build,       \* whether `+ 1` panics ("debug") or wraps ("release")
    pc,          \* "loop" inside Specifiers::satisfied_by, "done" after it
    i,           \* position of the loop in the collection
    ranges,      \* what the last call of to_ranges returned
    ret,         \* what Specifiers::satisfied_by returned
    calls,       \* how many calls have been started
    prev         \* what the previous call returned

vars == <<specifiers, version, build, pc, i, ranges, ret, calls, prev>>

Start(ss, w, b) ==
    /\ specifiers = ss
    /\ version = w
    /\ build = b
    /\ pc = "loop"
    /\ i = 1
    /\ ranges = ErrRanges("")
    /\ ret = NoResult
    /\ calls = 1
    /\ prev = NoResult

\* One pass of the loop of Specifiers::satisfied_by.
Iterate ==
    /\ pc = "loop"
    /\ i <= Len(specifiers)
    /\ LET specifier == specifiers[i]
           rs == to_ranges(specifier.op, specifier.value, build)
           step == loop_body(satisfied_by_ranges(rs, version))
       IN  /\ ranges' = rs
           /\ IF step.return
              THEN /\ ret' = step.value
                   /\ pc' = "done"
                   /\ i' = i
              ELSE /\ i' = i + 1
                   /\ UNCHANGED <<ret, pc>>
    /\ UNCHANGED <<specifiers, version, build, calls, prev>>

\* The loop is over: Ok(true).
LoopExit ==
    /\ pc = "loop"
    /\ i > Len(specifiers)
    /\ ret' = OkBool(TRUE)
    /\ pc' = "done"
    /\ UNCHANGED <<specifiers, version, build, i, ranges, calls, prev>>

Swap(s, j, k) == [s EXCEPT ![j] = s[k], ![k] = s[j]]

\* The caller asks again about the same version, with the same specifiers in
\* another order.
Reorder ==
    /\ pc = "done"
    /\ calls = 1
    /\ Len(specifiers) >= 2
    /\ \E j \in 1..Len(specifiers), k \in 1..Len(specifiers) :
          /\ j < k
          /\ specifiers' = Swap(specifiers, j, k)
    /\ prev' = ret
    /\ ret' = NoResult
    /\ pc' = "loop"
    /\ i' = 1
    /\ calls' = 2
    /\ UNCHANGED <<version, build, ranges>>

\* a caller that asks once
Call == Iterate \/ LoopExit

Next == Iterate \/ LoopExit \/ Reorder

\* ------------------------------------------- collections of specifiers
\* Right-hand sides "1.1", "1.*" and "<u32::MAX>.*"
PoolValues ==
    { << VersionTok(Lit(0, <<1, 1>>, None, None, None, <<>>)) >>,
      << VersionTok(Lit(0, <<1>>, None, None, None, <<>>)), StarTok >>,
      << VersionTok(Lit(0, <<U32_MAX>>, None, None, None, <<>>)), StarTok >> }

Pool == {Specifier(op, value) : op \in CompareOp, value \in PoolValues}

PoolVersions ==
    Versions({0}, {<<1>>, <<1, 1>>, <<U32_MAX>>}, {None}, {None}, {None},
             Locals)

Collections == UNION {[1..n -> Pool] : n \in 0..MaxSpecs}

InitConj ==
    \E ss \in Collections, w \in PoolVersions, b \in Builds : Start(ss, w, b)

SpecConj == InitConj /\ [][Next]_vars

\* what each specifier of the collection answers on its own
Individually ==
    [k \in 1..Len(specifiers) |->
        Specifier_satisfied_by(specifiers[k], version, build)]

\* C1 (conjunction law): when Specifiers::satisfied_by has returned, it has
\* returned Ok(true) exactly if every specifier on its own returns Ok(true);
\* and if every specifier compiles, it has returned Ok of the conjunction of
\* the specifiers' own answers.
C1_ConjunctionLaw ==
    pc = "done" =>
      /\ (ret = OkBool(TRUE)) <=>
            (\A k \in 1..Len(specifiers) : Individually[k] = OkBool(TRUE))
      /\ (\A k \in 1..Len(specifiers) : Individually[k].kind = "ok") =>
            ret = OkBool(\A k \in 1..Len(specifiers) : Individually[k].val)

\* a call on two specifiers that both hold has returned Ok(true)
C1_Witness ==
    /\ pc = "done"
    /\ Len(specifiers) = 2
    /\ specifiers[1] # specifiers[2]
    /\ ret = OkBool(TRUE)

\* C2 (order independence): the call on the reordered collection returns
\* what the call on the original collection returned.
C2_OrderIndependent ==
    (pc = "done" /\ calls = 2) => ret = prev

\* ---------------------------------------------------- single specifiers
\* the specifier of a collection of one, its parsed right-hand side, and the
\* version asked about
TheOp == specifiers[1].op
TheValue == specifiers[1].value
TheParse == parse_version_wildcard(TheValue)
TheLiteral == TheParse.version
Answered == pc = "done" /\ Len(specifiers) = 1 /\ TheParse.ok
Plain == Answered /\ ~TheParse.wildcard
Wildcard == Answered /\ TheParse.wildcard

SameEpochAndRelease(a, b) ==
    /\ a.bound = 0
    /\ b.bound = 0
    /\ a.epoch = b.epoch
    /\ CmpRelease(a.release, b.release, 1) = 0

\* suffixes of the literals of the exhaustive specifications: each of pre,
\* post and dev absent or present
SomePres == {None, Some(PreRelease("B", 1))}
SomeNums == {None, Some(1)}
SuffixedLiterals ==
    Versions({0, MaxEpoch}, Releases, SomePres, SomeNums, SomeNums, {<<>>})

\* "<v" for every such literal v, asked about the candidates of v
InitLess ==
    \E v \in SuffixedLiterals, b \in Builds :
       \E w \in Candidates(v) :
          Start(<< Specifier("StrictlyLessThan", << VersionTok(v) >>) >>, w, b)

SpecLess == InitLess /\ [][Call]_vars

\* C9 (pre-release exclusion of '<'): for a literal v without local segment,
\* if v has neither pre-release nor dev-release then "<v" accepts exactly the
\* versions below v's release with dev = 0 and post cleared, hence no version
\* of v's epoch and release; otherwise it accepts exactly the versions
\* strictly below v.
C9_LessThanExcludesPreReleases ==
    (Plain /\ TheOp = "StrictlyLessThan" /\ TheLiteral.local = <<>>) =>
       IF IsNone(TheLiteral.pre) /\ IsNone(TheLiteral.dev)
       THEN /\ ret = OkBool(Lt(version,
                       Lit(TheLiteral.epoch, TheLiteral.release, None, None,
                           Some(0), <<>>)))
            /\ SameEpochAndRelease(version, TheLiteral) => ret = OkBool(FALSE)
       ELSE ret = OkBool(Lt(version, TheLiteral))

\* "<v" has rejected a pre-release of the final release v
C9_Witness ==
    /\ Plain
    /\ TheOp = "StrictlyLessThan"
    /\ IsNone(TheLiteral.pre) /\ IsNone(TheLiteral.dev)
    /\ SameEpochAndRelease(version, TheLiteral)
    /\ IsSome(version.pre)
    /\ IsNone(version.post)
    /\ ret = OkBool(FALSE)

\* "~=v" for every such literal v, asked about the candidates of v
InitCompatible ==
    \E v \in SuffixedLiterals, b \in Builds :
       \E w \in Candidates(v) :
          Start(<< Specifier("Compatible", << VersionTok(v) >>) >>, w, b)

SpecCompatible == InitCompatible /\ [][Call]_vars

\* v with its last release segment dropped and pre, post and dev removed
Prefix(v) == Lit(v.epoch, Pop(v.release), None, None, None, <<>>)

ExtremeLiterals ==
    Versions({0}, {<<1>>, <<U32_MAX>>, <<1, 1>>, <<1, U32_MAX>>},
             {None, Some(PreRelease("RC", U32_MAX))},
             {None, Some(U32_MAX)}, {None, Some(U32_MAX)}, Locals)

InitOne ==
    \E op \in CompareOp, v \in ExtremeLiterals, b \in Builds :
       \E value \in { << VersionTok(v) >>, << VersionTok(v), StarTok >>,
                      << JunkTok >> },
          w \in Candidates(v) :
          Start(<< Specifier(op, value) >>, w, b)

SpecOne == InitOne /\ [][Call]_vars

\* C3 (complement law): a version satisfies exactly one of "==v" and "!=v".
C3_ComplementLaw ==
    (Plain /\ TheOp \in {"Equal", "NotEqual"}) =>
       LET eq == Specifier_satisfied_by(Specifier("Equal", TheValue),
                                        version, build)
           ne == Specifier_satisfied_by(Specifier("NotEqual", TheValue),
                                        version, build)
       IN  /\ ret = (IF TheOp = "Equal" THEN eq ELSE ne)
           /\ eq.kind = "ok" /\ ne.kind = "ok"
           /\ eq.val # ne.val

\* C4 (wildcard containment): "==X.Y.*" accepts a version of the literal's
\* epoch exactly if its zero-padded release begins with [X, Y].
C4_WildcardContainment ==
    (Wildcard /\ TheOp = "Equal" /\ Len(TheLiteral.release) = 2
       /\ IsNone(TheLiteral.pre) /\ IsNone(TheLiteral.post)
       /\ IsNone(TheLiteral.dev) /\ TheLiteral.local = <<>>
       /\ version.bound = 0 /\ version.epoch = TheLiteral.epoch) =>
       ret = OkBool(/\ RelAt(version.release, 1) = TheLiteral.release[1]
                    /\ RelAt(version.release, 2) = TheLiteral.release[2])

\* the four semantic errors of C5
SemanticError ==
    \/ TheParse.wildcard /\ TheOp \notin {"Equal", "NotEqual"}
    \/ TheParse.wildcard
         /\ (IsSome(TheLiteral.dev) \/ TheLiteral.local # <<>>)
    \/ ~TheParse.wildcard /\ TheLiteral.local # <<>>
         /\ TheOp \in {"LessThanEqual", "StrictlyLessThan", "GreaterThanEqual",
                       "StrictlyGreaterThan", "Compatible"}
    \/ TheOp = "Compatible" /\ Len(TheLiteral.release) < 2

\* C5 (semantic errors): on a parseable literal to_ranges returns an error in
\* the four cases and a range set in every other case, and
\* Specifier::satisfied_by returns an error exactly when to_ranges does.
C5_SemanticErrors ==
    Answered =>
       /\ SemanticError => ranges.kind = "err"
       /\ ~SemanticError => ranges.kind = "ok"
       /\ (ret.kind = "err") <=> (ranges.kind = "err")

\* C6 (post-release exclusion of '>'): for a literal v without post-release,
\* dev-release and local segment, ">v" accepts no post-release of v: no
\* version of v's epoch, release and pre-release that has a post number.
C6_GreaterThanExcludesPostReleases ==
    (Plain /\ TheOp = "StrictlyGreaterThan"
       /\ IsNone(TheLiteral.post) /\ IsNone(TheLiteral.dev)
       /\ TheLiteral.local = <<>>
       /\ SameEpochAndRelease(version, TheLiteral)
       /\ version.pre = TheLiteral.pre /\ IsSome(version.post)) =>
       ret = OkBool(FALSE)

\* C8 (totality without overflow): on a parseable literal to_ranges returns a
\* range set or an error, and every range it returns has low below high.
C8_TotalWithoutOverflow ==
    Answered =>
       /\ ranges.kind \in {"ok", "err"}
       /\ \A k \in 1..Len(ranges.ranges) :
             Lt(ranges.ranges[k].start, ranges.ranges[k].end)

\* C10 (strictness): a version ">v" accepts is above v, a version "<v"
\* accepts is below v.
C10_Strictness ==
    (Plain /\ ret = OkBool(TRUE)) =>
       /\ TheOp = "StrictlyGreaterThan" => Cmp(version, TheLiteral) > 0
       /\ TheOp = "StrictlyLessThan" => Cmp(version, TheLiteral) < 0

====
